---- MODULE Spec2Model ----
(***************************************************************************)
(* helm-depcheck: the dependency compatibility check of pkg/checker,       *)
(* together with the declaration parser (pkg/parser) and the Helm client   *)
(* (pkg/helm) it drives.  The Release Directory (Kubernetes + Helm) is the *)
(* environment: its namespaces, deployed releases and failures are state   *)
(* that may change while a check is running.                               *)
(***************************************************************************)
EXTENDS Integers, Sequences, FiniteSets, TLC

----------------------------------------------------------------------------
(* Bounds of the model *)

\* longest dependencies.yaml considered
MaxDeps == 2

\* number of changes the environment makes during one behaviour
MaxEnvSteps == 1

----------------------------------------------------------------------------
(* Program constants: pkg/types *)

StatusSatisfied == "satisfied"
StatusNotFound == "not_found"
StatusVersionMismatch == "version_mismatch"
StatusMultipleFound == "multiple_found"
StatusError == "error"

ErrorTypeDependencyNotFound == "dependency_not_found"
ErrorTypeVersionMismatch == "version_mismatch"
ErrorTypeMultipleDeployments == "multiple_deployments"
ErrorTypeDuplicateInNamespace == "duplicate_in_namespace"
ErrorTypeInvalidDependencyFile == "invalid_dependency_file"
ErrorTypeHelmClientError == "helm_client_error"
ErrorTypeInvalidVersionConstraint == "invalid_version_constraint"

\* the zero value of types.ErrorDetails
ErrorDetails ==
    [requiredVersion |-> "", foundVersion |-> "", namespace |-> "",
     release |-> "", searchPattern |-> "", foundNamespaces |-> <<>>,
     foundReleases |-> <<>>, file |-> "", line |-> 0]

\* an error built without the details it was given
NewValidationErrorWithoutDetails(errorType, chart, message, details) ==
    [type |-> errorType, chart |-> chart, message |-> message, details |-> ErrorDetails]

NewValidationError(errorType, chart, message, details) ==
    [type |-> errorType, chart |-> chart, message |-> message, details |-> details]

\* every key of the systemNamespaces map taken for a system namespace
IsKnownNamespace(namespace) ==
    namespace \in {"kube-system", "kube-public", "kube-node-lease", "default"}

IsSystemNamespace(namespace) ==
    namespace \in {"kube-system", "kube-public", "kube-node-lease"}

----------------------------------------------------------------------------
(* Strings.  A message is the sequence of its words; a name is one word.   *)

Words(name) == <<name>>

\* a join that writes the first name only
JoinFirstOnly(names) == IF names = <<>> THEN <<>> ELSE Words(names[1])

\* strings.Join(names, ", ")
RECURSIVE Join(_)
Join(names) ==
    IF names = <<>> THEN <<>>
    ELSE IF Len(names) = 1 THEN Words(names[1])
    ELSE Words(names[1]) \o <<",">> \o Join(Tail(names))

\* strings.Contains(s, sub)
Contains(s, sub) ==
    \E i \in 0..(Len(s) - Len(sub)) :
        \A j \in 1..Len(sub) : s[i + j] = sub[j]

\* strings.TrimSpace on the names and constraints of the model
TrimSpace(s) == IF s \in {"", " "} THEN "" ELSE s

----------------------------------------------------------------------------
(* The inputs: the universe the environment and the declaration draw from  *)

\* namespaces of the cluster, in the order the API server lists them
NamespaceUniverse == <<"kube-system", "prod", "staging">>

\* the namespaces a cluster can have at all, in the order the API server
\* lists them; NamespaceUniverse are those the clusters of Spec draw from
AllNamespaces ==
    <<"default", "kube-node-lease", "kube-public", "kube-system", "prod", "staging">>

\* the releases that can be deployed, in the order helm lists them
ReleasePool ==
    << [name |-> "cache-a", namespace |-> "prod",
        chart |-> [name |-> "redis", version |-> "6.2.1"]],
       [name |-> "cache-b", namespace |-> "prod",
        chart |-> [name |-> "redis", version |-> "7.0.0"]],
       [name |-> "cache-c", namespace |-> "staging",
        chart |-> [name |-> "redis", version |-> "6.2.1"]],
       [name |-> "cache-d", namespace |-> "staging",
        chart |-> [name |-> "redis", version |-> "junk"]],
       [name |-> "db-e", namespace |-> "kube-system",
        chart |-> [name |-> "pg", version |-> "1.4.0"]] >>

\* the entries a dependencies.yaml is written from
DepPool ==
    { [name |-> "redis", version |-> ">=6.0.0 <7.0.0"],
      [name |-> "pg", version |-> "^1.0.0"],
      [name |-> "nginx", version |-> "^1.0.0"],
      [name |-> "", version |-> "^1.0.0"],
      [name |-> "redis", version |-> ""],
      [name |-> "pg", version |-> "bad"] }

\* the --namespace-pattern values: default, two valid expressions, one that
\* does not compile
Patterns == {"", "prod", "s", "["}

RECURSIVE SeqsUpTo(_, _)
SeqsUpTo(S, n) ==
    IF n = 0 THEN {<<>>}
    ELSE LET shorter == SeqsUpTo(S, n - 1)
         IN  shorter \cup {Append(s, x) : s \in {t \in shorter : Len(t) = n - 1}, x \in S}

\* types.Config with the chart directory it points to
Configs ==
    LET files ==
            {[chart |-> FALSE, file |-> "missing", dependencies |-> <<>>]}
            \cup {[chart |-> TRUE, file |-> f, dependencies |-> <<>>] :
                     f \in {"missing", "unreadable", "badyaml"}}
            \cup {[chart |-> TRUE, file |-> "ok", dependencies |-> d] :
                     d \in SeqsUpTo(DepPool, MaxDeps)}
    IN  {[chart |-> f.chart, file |-> f.file, dependencies |-> f.dependencies,
          namespacePattern |-> p] : f \in files, p \in Patterns}

----------------------------------------------------------------------------
(* github.com/Masterminds/semver, on the version and constraint strings of *)
(* the model                                                               *)

\* semver.NewVersion
NewVersion(v) ==
    CASE v = "6.2.1" -> [ok |-> TRUE, version |-> <<6, 2, 1>>]
      [] v = "7.0.0" -> [ok |-> TRUE, version |-> <<7, 0, 0>>]
      [] v = "1.4.0" -> [ok |-> TRUE, version |-> <<1, 4, 0>>]
      [] OTHER -> [ok |-> FALSE, version |-> <<0, 0, 0>>]

\* semver.NewConstraint: a conjunction of comparisons
NewConstraint(c) ==
    CASE c = ">=6.0.0 <7.0.0" ->
            [ok |-> TRUE, all |-> << [op |-> ">=", version |-> <<6, 0, 0>>],
                                     [op |-> "<", version |-> <<7, 0, 0>>] >>]
      [] c = "^1.0.0" ->
            [ok |-> TRUE, all |-> << [op |-> ">=", version |-> <<1, 0, 0>>],
                                     [op |-> "<", version |-> <<2, 0, 0>>] >>]
      [] OTHER -> [ok |-> FALSE, all |-> <<>>]

\* v < w in version precedence
VersionLess(v, w) ==
    \/ v[1] < w[1]
    \/ v[1] = w[1] /\ v[2] < w[2]
    \/ v[1] = w[1] /\ v[2] = w[2] /\ v[3] < w[3]

\* Constraints.Check
ConstraintCheck(constraint, v) ==
    \A i \in 1..Len(constraint.all) :
        LET c == constraint.all[i]
        IN  CASE c.op = ">=" -> ~VersionLess(v, c.version)
              [] c.op = "<" -> VersionLess(v, c.version)
              [] OTHER -> FALSE

----------------------------------------------------------------------------
(* pkg/parser *)

NoError == [type |-> "nil", chart |-> "", message |-> <<>>, details |-> ErrorDetails]

dependenciesPath == "chart/dependencies.yaml"

\* Parser.validateVersionConstraint: TRUE when the constraint is accepted
validateVersionConstraint(constraint) ==
    /\ TrimSpace(constraint) # ""
    /\ NewConstraint(constraint).ok

\* the scan with the test for a name already seen ahead of the test for an
\* empty constraint
RECURSIVE validateFromSeenFirst(_, _, _)
validateFromSeenFirst(deps, i, seenNames) ==
    IF i > Len(deps) THEN NoError
    ELSE
        LET dep == deps[i]
            at == [ErrorDetails EXCEPT !.file = dependenciesPath, !.line = i + 1]
        IN  IF TrimSpace(dep.name) = ""
            THEN NewValidationError(ErrorTypeInvalidDependencyFile, "",
                     <<"dependency name cannot be empty">>, at)
            ELSE IF dep.name \in seenNames
            THEN NewValidationError(ErrorTypeInvalidDependencyFile, dep.name,
                     <<"duplicate dependency name">>, at)
            ELSE IF TrimSpace(dep.version) = ""
            THEN NewValidationError(ErrorTypeInvalidDependencyFile, dep.name,
                     <<"dependency version cannot be empty">>, at)
            ELSE IF ~validateVersionConstraint(dep.version)
            THEN NewValidationError(ErrorTypeInvalidVersionConstraint, dep.name,
                     <<"invalid version constraint", dep.version>>, at)
            ELSE validateFromSeenFirst(deps, i + 1, seenNames \cup {dep.name})

\* Parser.validateDependencies, from entry i (1-based) with the names seen so
\* far; lineNumber is i + 2 for the 0-based index, i + 1 here
RECURSIVE validateFrom(_, _, _)
validateFrom(deps, i, seenNames) ==
    IF i > Len(deps) THEN NoError
    ELSE
        LET dep == deps[i]
            at == [ErrorDetails EXCEPT !.file = dependenciesPath, !.line = i + 1]
        IN  IF TrimSpace(dep.name) = ""
            THEN NewValidationError(ErrorTypeInvalidDependencyFile, "",
                     <<"dependency name cannot be empty">>, at)
            ELSE IF TrimSpace(dep.version) = ""
            THEN NewValidationError(ErrorTypeInvalidDependencyFile, dep.name,
                     <<"dependency version cannot be empty">>, at)
            ELSE IF dep.name \in seenNames
            THEN NewValidationError(ErrorTypeInvalidDependencyFile, dep.name,
                     <<"duplicate dependency name">>, at)
            ELSE IF ~validateVersionConstraint(dep.version)
            THEN NewValidationError(ErrorTypeInvalidVersionConstraint, dep.name,
                     <<"invalid version constraint", dep.version>>, at)
            ELSE validateFrom(deps, i + 1, seenNames \cup {dep.name})

\* the scan with every entry checked as if no name had been seen before it
validateEntriesAlone(deps) ==
    LET alone(i) == validateFrom(SubSeq(deps, 1, i), i, {})
        bad == {i \in 1..Len(deps) : alone(i) # NoError}
    IN  IF bad = {} THEN NoError
        ELSE alone(CHOOSE i \in bad : \A j \in bad : i <= j)

validateDependencies(deps) == validateFrom(deps, 1, {})

\* Parser.ValidateChartPath: TRUE when Chart.yaml can be read
ValidateChartPath(cfg) == cfg.chart

\* ParseDependencies without the call of validateDependencies
ParseDependenciesUnvalidated(cfg) ==
    CASE cfg.file = "missing" -> [err |-> NoError, dependencies |-> <<>>]
      [] cfg.file = "unreadable" ->
            [err |-> NewValidationError(ErrorTypeInvalidDependencyFile, "",
                        <<"failed to read dependencies file", "permission denied">>,
                        [ErrorDetails EXCEPT !.file = dependenciesPath]),
             dependencies |-> <<>>]
      [] cfg.file = "badyaml" ->
            [err |-> NewValidationError(ErrorTypeInvalidDependencyFile, "",
                        <<"failed to parse YAML", "yaml error">>,
                        [ErrorDetails EXCEPT !.file = dependenciesPath]),
             dependencies |-> <<>>]
      [] OTHER -> [err |-> NoError, dependencies |-> cfg.dependencies]

\* Parser.ParseDependencies
ParseDependencies(cfg) ==
    CASE cfg.file = "missing" -> [err |-> NoError, dependencies |-> <<>>]
      [] cfg.file = "unreadable" ->
            [err |-> NewValidationError(ErrorTypeInvalidDependencyFile, "",
                        <<"failed to read dependencies file", "permission denied">>,
                        [ErrorDetails EXCEPT !.file = dependenciesPath]),
             dependencies |-> <<>>]
      [] cfg.file = "badyaml" ->
            [err |-> NewValidationError(ErrorTypeInvalidDependencyFile, "",
                        <<"failed to parse YAML", "yaml error">>,
                        [ErrorDetails EXCEPT !.file = dependenciesPath]),
             dependencies |-> <<>>]
      [] OTHER ->
            LET err == validateDependencies(cfg.dependencies)
            IN  IF err # NoError
                THEN [err |-> err, dependencies |-> <<>>]
                ELSE [err |-> NoError, dependencies |-> cfg.dependencies]

----------------------------------------------------------------------------
(* pkg/helm.  A cluster is a record                                        *)
(*   namespaces : the namespaces that exist                                *)
(*   deployed   : the indexes in ReleasePool of the deployed releases      *)
(*   apiDown    : listing the namespaces fails                             *)
(*   nsDown     : the namespaces in which listing the releases fails       *)

\* the characters of the names and patterns, for regexp matching
Chars(s) ==
    CASE s = "prod" -> <<"p", "r", "o", "d">>
      [] s = "staging" -> <<"s", "t", "a", "g", "i", "n", "g">>
      [] s = "kube-system" -> <<"k", "u", "b", "e", "-", "s", "y", "s", "t", "e", "m">>
      [] s = "default" -> <<"d", "e", "f", "a", "u", "l", "t">>
      [] s = "kube-public" -> <<"k", "u", "b", "e", "-", "p", "u", "b", "l", "i", "c">>
      [] s = "kube-node-lease" ->
            <<"k", "u", "b", "e", "-", "n", "o", "d", "e", "-", "l", "e", "a", "s", "e">>
      [] s = "kube" -> <<"k", "u", "b", "e">>
      [] s = "s" -> <<"s">>
      [] OTHER -> <<>>

\* regexp.Compile succeeds
Compiles(pattern) == pattern # "["

\* a match of the whole name
MatchStringAnchored(pattern, namespace) == Chars(namespace) = Chars(pattern)

\* Regexp.MatchString for a pattern of literal characters: an unanchored search
MatchString(pattern, namespace) == Contains(Chars(namespace), Chars(pattern))

\* Namespaces().List: the items in API order
NamespaceList(cluster) == SelectSeq(AllNamespaces, LAMBDA n : n \in cluster.namespaces)

\* Client.getMatchingNamespaces
getMatchingNamespaces(cluster, pattern) ==
    IF cluster.apiDown
    THEN [ok |-> FALSE, err |-> <<"failed to list namespaces", "api error">>,
          namespaces |-> <<>>]
    ELSE IF pattern = ""
    THEN [ok |-> TRUE, err |-> <<>>,
          namespaces |-> SelectSeq(NamespaceList(cluster),
                                   LAMBDA n : ~IsSystemNamespace(n))]
    ELSE IF ~Compiles(pattern)
    THEN [ok |-> FALSE, err |-> <<"invalid namespace pattern", pattern>>,
          namespaces |-> <<>>]
    ELSE [ok |-> TRUE, err |-> <<>>,
          namespaces |-> SelectSeq(NamespaceList(cluster),
                                   LAMBDA n : MatchString(pattern, n))]

\* the indexes of ReleasePool as a sequence
PoolIndexes == [i \in 1..Len(ReleasePool) |-> i]

\* Client.getReleasesInNamespace
getReleasesInNamespace(cluster, namespace) ==
    IF namespace \in cluster.nsDown
    THEN [ok |-> FALSE, releases |-> <<>>]
    ELSE [ok |-> TRUE,
          releases |->
              LET idx == SelectSeq(PoolIndexes,
                             LAMBDA i : /\ i \in cluster.deployed
                                        /\ ReleasePool[i].namespace = namespace)
              IN  [k \in 1..Len(idx) |-> ReleasePool[idx[k]]]]

\* the loop of Client.GetReleases over namespaces[i..]
RECURSIVE collectReleases(_, _, _)
collectReleases(cluster, namespaces, i) ==
    IF i > Len(namespaces) THEN <<>>
    ELSE LET r == getReleasesInNamespace(cluster, namespaces[i])
         IN  IF ~r.ok
             THEN collectReleases(cluster, namespaces, i + 1)
             ELSE r.releases \o collectReleases(cluster, namespaces, i + 1)

\* Client.GetReleases
GetReleases(cluster, pattern) ==
    LET ns == getMatchingNamespaces(cluster, pattern)
    IN  IF ~ns.ok
        THEN [ok |-> FALSE, err |-> <<"failed to get matching namespaces">> \o ns.err,
              releases |-> <<>>, namespaces |-> <<>>]
        ELSE [ok |-> TRUE, err |-> <<>>,
              releases |-> collectReleases(cluster, ns.namespaces, 1),
              namespaces |-> ns.namespaces]

\* FindReleasesByChartName without the comparison of the chart name
FindReleasesOfAnyChart(cluster, chartName, pattern) == GetReleases(cluster, pattern)

\* Client.FindReleasesByChartName
FindReleasesByChartName(cluster, chartName, pattern) ==
    LET all == GetReleases(cluster, pattern)
    IN  IF ~all.ok THEN all
        ELSE [all EXCEPT !.releases =
                  SelectSeq(all.releases, LAMBDA r : r.chart.name = chartName)]

----------------------------------------------------------------------------
(* pkg/checker *)

\* the iteration orders a Go map with these keys can be ranged in
Orders(keys) ==
    {o \in [1..Cardinality(keys) -> keys] :
        \A i, j \in 1..Cardinality(keys) : i # j => o[i] # o[j]}

\* the namespaces of a list of releases: the keys of releasesByNamespace
NamespacesOf(releases) == {releases[i].namespace : i \in 1..Len(releases)}

\* releasesByNamespace[namespace]
releasesByNamespace(releases, namespace) ==
    SelectSeq(releases, LAMBDA r : r.namespace = namespace)

\* isVersionCompatible with a version that does not parse treated as one that
\* does not satisfy the constraint
isVersionCompatibleOrFalse(foundVersion, requiredConstraint) ==
    LET version == NewVersion(foundVersion)
        constraint == NewConstraint(requiredConstraint)
    IN  IF ~version.ok
        THEN [ok |-> TRUE, compatible |-> FALSE, err |-> <<>>]
        ELSE IF ~constraint.ok
        THEN [ok |-> FALSE, compatible |-> FALSE,
              err |-> <<"invalid version constraint", requiredConstraint>>]
        ELSE [ok |-> TRUE, compatible |-> ConstraintCheck(constraint, version.version),
              err |-> <<>>]

\* Checker.isVersionCompatible
isVersionCompatible(foundVersion, requiredConstraint) ==
    LET version == NewVersion(foundVersion)
        constraint == NewConstraint(requiredConstraint)
    IN  IF ~version.ok
        THEN [ok |-> FALSE, compatible |-> FALSE,
              err |-> <<"invalid found version", foundVersion>>]
        ELSE IF ~constraint.ok
        THEN [ok |-> FALSE, compatible |-> FALSE,
              err |-> <<"invalid version constraint", requiredConstraint>>]
        ELSE [ok |-> TRUE, compatible |-> ConstraintCheck(constraint, version.version),
              err |-> <<>>]

\* the duplicate test with len(nsReleases) >= 1 for len(nsReleases) > 1
RECURSIVE firstDuplicatedOffByOne(_, _, _)
firstDuplicatedOffByOne(releases, order, i) ==
    IF i > Len(order) THEN ""
    ELSE IF Len(releasesByNamespace(releases, order[i])) >= 1 THEN order[i]
    ELSE firstDuplicatedOffByOne(releases, order, i + 1)

\* the first namespace in the iteration order that holds more than one
\* release, "" when there is none
RECURSIVE firstDuplicated(_, _, _)
firstDuplicated(releases, order, i) ==
    IF i > Len(order) THEN ""
    ELSE IF Len(releasesByNamespace(releases, order[i])) > 1 THEN order[i]
    ELSE firstDuplicated(releases, order, i + 1)

\* checkSingleDependency with the check for several namespaces placed before
\* the check for duplicates in one namespace
classifyCrossNamespaceFirst(dep, found, dupOrder, nsOrder) ==
    LET result == [name |-> dep.name, requiredVersion |-> dep.version,
                   status |-> StatusError, foundReleases |-> <<>>, error |-> <<>>]
        releases == found.releases
        dup == firstDuplicated(releases, dupOrder, 1)
    IN  IF ~found.ok
        THEN [result EXCEPT !.error = <<"failed to find releases">> \o found.err]
        ELSE IF Len(releases) = 0
        THEN [result EXCEPT !.status = StatusNotFound]
        ELSE IF Cardinality(NamespacesOf(releases)) > 1
        THEN [result EXCEPT !.status = StatusMultipleFound,
                            !.foundReleases = releases,
                            !.error = <<"found", "in", "multiple", "namespaces", ":">>
                                      \o Join(nsOrder)]
        ELSE IF dup # ""
        THEN [result EXCEPT !.status = StatusMultipleFound,
                            !.foundReleases = releasesByNamespace(releases, dup),
                            !.error = <<"multiple", "instances", "found", "in",
                                        "namespace">> \o Words(dup)]
        ELSE LET release == releases[1]
                 compat == isVersionCompatible(release.chart.version, dep.version)
                 one == [result EXCEPT !.foundReleases = <<release>>]
             IN  IF ~compat.ok
                 THEN [one EXCEPT !.status = StatusError,
                                  !.error = <<"version compatibility check failed">>
                                            \o compat.err]
                 ELSE IF compat.compatible
                 THEN [one EXCEPT !.status = StatusSatisfied]
                 ELSE [one EXCEPT !.status = StatusVersionMismatch]

\* Checker.checkSingleDependency after the lookup returned, with the orders in
\* which the two range loops visit releasesByNamespace
classify(dep, found, dupOrder, nsOrder) ==
    LET result == [name |-> dep.name, requiredVersion |-> dep.version,
                   status |-> StatusError, foundReleases |-> <<>>, error |-> <<>>]
        releases == found.releases
        dup == firstDuplicated(releases, dupOrder, 1)
    IN  IF ~found.ok
        THEN [result EXCEPT !.error = <<"failed to find releases">> \o found.err]
        ELSE IF Len(releases) = 0
        THEN [result EXCEPT !.status = StatusNotFound]
        ELSE IF dup # ""
        THEN [result EXCEPT !.status = StatusMultipleFound,
                            !.foundReleases = releasesByNamespace(releases, dup),
                            !.error = <<"multiple", "instances", "found", "in",
                                        "namespace">> \o Words(dup)]
        ELSE IF Cardinality(NamespacesOf(releases)) > 1
        THEN [result EXCEPT !.status = StatusMultipleFound,
                            !.foundReleases = releases,
                            !.error = <<"found", "in", "multiple", "namespaces", ":">>
                                      \o Join(nsOrder)]
        ELSE LET release == releases[1]
                 compat == isVersionCompatible(release.chart.version, dep.version)
                 one == [result EXCEPT !.foundReleases = <<release>>]
             IN  IF ~compat.ok
                 THEN [one EXCEPT !.status = StatusError,
                                  !.error = <<"version compatibility check failed">>
                                            \o compat.err]
                 ELSE IF compat.compatible
                 THEN [one EXCEPT !.status = StatusSatisfied]
                 ELSE [one EXCEPT !.status = StatusVersionMismatch]

\* checkSingleDependency with the single release recorded only when its
\* version does not satisfy the constraint
checkSingleDependencyUnrecorded(cluster, dep, namespacePattern) ==
    LET found == FindReleasesByChartName(cluster, dep.name, namespacePattern)
        keys == NamespacesOf(found.releases)
        unrecorded(r) == IF r.status = StatusSatisfied
                         THEN [r EXCEPT !.foundReleases = <<>>]
                         ELSE r
    IN  {unrecorded(classify(dep, found, dupOrder, nsOrder)) :
            dupOrder \in Orders(keys), nsOrder \in Orders(keys)}

\* Checker.checkSingleDependency: the results it can return in this cluster
checkSingleDependency(cluster, dep, namespacePattern) ==
    LET found == FindReleasesByChartName(cluster, dep.name, namespacePattern)
        keys == NamespacesOf(found.releases)
    IN  {classify(dep, found, dupOrder, nsOrder) :
            dupOrder \in Orders(keys), nsOrder \in Orders(keys)}

\* createValidationError with the message searched for "multiple" alone
createValidationErrorAnyMultiple(depResult, namespacePattern) ==
    LET required == [ErrorDetails EXCEPT !.requiredVersion = depResult.requiredVersion]
        found == depResult.foundReleases
    IN  CASE depResult.status = StatusNotFound ->
                NewValidationError(ErrorTypeDependencyNotFound, depResult.name,
                    <<"No releases found matching the dependency requirements">>,
                    [required EXCEPT !.searchPattern = namespacePattern])
          [] depResult.status = StatusVersionMismatch ->
                NewValidationError(ErrorTypeVersionMismatch, depResult.name,
                    <<"Deployed version does not satisfy version constraint">>,
                    [required EXCEPT !.foundVersion = found[1].chart.version,
                                     !.namespace = found[1].namespace,
                                     !.release = found[1].name])
          [] depResult.status = StatusMultipleFound ->
                IF Contains(depResult.error, <<"multiple">>)
                THEN NewValidationError(ErrorTypeMultipleDeployments, depResult.name,
                         <<"Dependency found in multiple namespaces, cannot determine which to use">>,
                         [required EXCEPT !.foundNamespaces =
                              [i \in 1..Len(found) |-> found[i].namespace]])
                ELSE NewValidationError(ErrorTypeDuplicateInNamespace, depResult.name,
                         <<"Multiple instances of the same chart found in single namespace">>,
                         [required EXCEPT !.namespace = found[1].namespace,
                                          !.foundReleases =
                                              [i \in 1..Len(found) |-> found[i].name]])
          [] OTHER ->
                NewValidationError(ErrorTypeHelmClientError, depResult.name,
                    depResult.error, required)

\* Checker.createValidationError
createValidationError(depResult, namespacePattern) ==
    LET required == [ErrorDetails EXCEPT !.requiredVersion = depResult.requiredVersion]
        found == depResult.foundReleases
    IN  CASE depResult.status = StatusNotFound ->
                NewValidationError(ErrorTypeDependencyNotFound, depResult.name,
                    <<"No releases found matching the dependency requirements">>,
                    [required EXCEPT !.searchPattern = namespacePattern])
          [] depResult.status = StatusVersionMismatch ->
                NewValidationError(ErrorTypeVersionMismatch, depResult.name,
                    <<"Deployed version does not satisfy version constraint">>,
                    [required EXCEPT !.foundVersion = found[1].chart.version,
                                     !.namespace = found[1].namespace,
                                     !.release = found[1].name])
          [] depResult.status = StatusMultipleFound ->
                IF Contains(depResult.error, <<"multiple", "namespaces">>)
                THEN NewValidationError(ErrorTypeMultipleDeployments, depResult.name,
                         <<"Dependency found in multiple namespaces, cannot determine which to use">>,
                         [required EXCEPT !.foundNamespaces =
                              [i \in 1..Len(found) |-> found[i].namespace]])
                ELSE NewValidationError(ErrorTypeDuplicateInNamespace, depResult.name,
                         <<"Multiple instances of the same chart found in single namespace">>,
                         [required EXCEPT !.namespace = found[1].namespace,
                                          !.foundReleases =
                                              [i \in 1..Len(found) |-> found[i].name]])
          [] OTHER ->
                NewValidationError(ErrorTypeHelmClientError, depResult.name,
                    depResult.error, required)

\* the switch without its StatusError case
countResultWithoutErrorCase(summary, status) ==
    LET total == [summary EXCEPT !.total = @ + 1]
    IN  CASE status = StatusSatisfied -> [total EXCEPT !.satisfied = @ + 1]
          [] status = StatusNotFound -> [total EXCEPT !.notFound = @ + 1]
          [] status = StatusVersionMismatch -> [total EXCEPT !.mismatched = @ + 1]
          [] status = StatusMultipleFound -> [total EXCEPT !.multiple = @ + 1]
          [] OTHER -> total

\* the switch of Checker.Check that counts one result in the summary
countResult(summary, status) ==
    LET total == [summary EXCEPT !.total = @ + 1]
    IN  CASE status = StatusSatisfied -> [total EXCEPT !.satisfied = @ + 1]
          [] status = StatusNotFound -> [total EXCEPT !.notFound = @ + 1]
          [] status = StatusVersionMismatch -> [total EXCEPT !.mismatched = @ + 1]
          [] status = StatusMultipleFound -> [total EXCEPT !.multiple = @ + 1]
          [] status = StatusError -> [total EXCEPT !.errors = @ + 1]
          [] OTHER -> total

\* the iteration with an error recorded only for the outcomes that found or
\* missed releases, not for StatusError
recordResultErrorUnreported(report, depResult, namespacePattern) ==
    [report EXCEPT
        !.dependencies = Append(@, depResult),
        !.summary = countResult(@, depResult.status),
        !.success = IF depResult.status = StatusSatisfied THEN @ ELSE FALSE,
        !.errors = IF depResult.status \notin {StatusSatisfied, StatusError}
                   THEN Append(@, createValidationError(depResult, namespacePattern))
                   ELSE @]

\* one iteration of the loop of Checker.Check: the report after depResult
recordResult(report, depResult, namespacePattern) ==
    [report EXCEPT
        !.dependencies = Append(@, depResult),
        !.summary = countResult(@, depResult.status),
        !.success = IF depResult.status = StatusSatisfied THEN @ ELSE FALSE,
        !.errors = IF depResult.status # StatusSatisfied
                   THEN Append(@, createValidationError(depResult, namespacePattern))
                   ELSE @]

\* the early return without result.Success = false
abortWithSuccessKept(report, err) ==
    [report EXCEPT !.errors = Append(@, err)]

\* the report a failed step of Checker.Check returns
abortWith(report, err) ==
    [report EXCEPT !.success = FALSE, !.errors = Append(@, err)]

\* the test with the bound off by one
noDependenciesOffByOne(dependencies) == Len(dependencies) <= 1

\* the test "if len(deps.Dependencies) == 0" of Checker.Check
noDependencies(dependencies) == Len(dependencies) = 0

\* a loop that returns at the first dependency whose check failed
loopEndsOnError(dependencies, i, depResult) ==
    i = Len(dependencies) \/ depResult.status = StatusError

\* the range loop of Checker.Check ends after the iteration for
\* dependencies[i], whatever depResult it produced
loopEnds(dependencies, i, depResult) == i = Len(dependencies)

\* the CheckResult Checker.Check starts from
NewCheckResult ==
    [success |-> TRUE, dependencies |-> <<>>, errors |-> <<>>,
     summary |-> [total |-> 0, satisfied |-> 0, notFound |-> 0, mismatched |-> 0,
                  multiple |-> 0, errors |-> 0],
     matchedNamespaces |-> <<>>]

----------------------------------------------------------------------------
(* State *)

VARIABLES
    config,     \* the types.Config Check is called with, and the chart it names
    cluster,    \* the Release Directory: namespaces, releases, outages
    envSteps,   \* changes the environment has made
    pc,         \* where Checker.Check is: "init", "parsed", "loop", "done"
    deps,       \* deps.Dependencies of Checker.Check
    idx,        \* the position of the loop of Checker.Check in deps
    result,     \* the CheckResult being built, returned when pc = "done"
    calls,      \* the queries sent to the Release Directory, in order
    lookups,    \* per FindReleasesByChartName call: the scope it searched
    runs,       \* the reports of the earlier calls of Check with this config
    process     \* the process of main: where runCheck is, its exit code

vars ==
    <<config, cluster, envSteps, pc, deps, idx, result, calls, lookups, runs, process>>

\* the process while runCheck is in its call of Checker.Check
InCheck == [step |-> "check", stdout |-> "open", output |-> "none", exitCode |-> 0]

\* the clusters a check can start in: every release lives in a namespace that
\* exists, nothing is failing
Clusters ==
    {[namespaces |-> ns, deployed |-> d, apiDown |-> FALSE, nsDown |-> {}] :
        ns \in SUBSET {NamespaceUniverse[i] : i \in 1..Len(NamespaceUniverse)},
        d \in SUBSET (1..Len(ReleasePool))} 

ValidCluster(c) == \A i \in c.deployed : ReleasePool[i].namespace \in c.namespaces

Init ==
    /\ config \in Configs
    /\ cluster \in {c \in Clusters : ValidCluster(c)}
    /\ envSteps = 0
    /\ pc = "init"
    /\ deps = <<>>
    /\ idx = 1
    /\ result = NewCheckResult
    /\ calls = <<>>
    /\ lookups = <<>>
    /\ runs = <<>>
    /\ process = InCheck

----------------------------------------------------------------------------
(* The queries a client call sends to the Release Directory *)

listNamespacesCall == [op |-> "listNamespaces", namespace |-> ""]

\* the queries of Client.GetReleases
GetReleasesCalls(cl, pattern) ==
    LET ns == getMatchingNamespaces(cl, pattern)
    IN  <<listNamespacesCall>>
        \o [i \in 1..Len(ns.namespaces) |->
               [op |-> "listReleases", namespace |-> ns.namespaces[i]]]

----------------------------------------------------------------------------
(* Checker.Check, one action per stretch between two Release Directory     *)
(* calls                                                                   *)

\* Check up to the return of ParseDependencies
CheckParse ==
    /\ pc = "init"
    /\ IF ~ValidateChartPath(config)
       THEN /\ result' = abortWith(result,
                            NewValidationError(ErrorTypeInvalidDependencyFile, "",
                                <<"invalid chart path">>,
                                [ErrorDetails EXCEPT !.file = "chart"]))
            /\ pc' = "done"
            /\ deps' = deps
       ELSE LET parsed == ParseDependencies(config)
            IN  IF parsed.err # NoError
                THEN /\ result' = abortWith(result, parsed.err)
                     /\ pc' = "done"
                     /\ deps' = deps
                ELSE /\ result' = result
                     /\ pc' = "parsed"
                     /\ deps' = parsed.dependencies
    /\ UNCHANGED <<config, cluster, envSteps, idx, calls, lookups, runs, process>>

\* Check from getMatchedNamespaces to the start of the loop
CheckNamespaces ==
    /\ pc = "parsed"
    /\ LET matched == getMatchingNamespaces(cluster, config.namespacePattern)
       IN  IF ~matched.ok
           THEN /\ result' = abortWith(result,
                                NewValidationError(ErrorTypeHelmClientError, "",
                                    <<"failed to get matching namespaces">> \o matched.err,
                                    ErrorDetails))
                /\ pc' = "done"
           ELSE /\ result' = [result EXCEPT !.matchedNamespaces = matched.namespaces]
                /\ pc' = IF noDependencies(deps) THEN "done" ELSE "loop"
    /\ calls' = Append(calls, listNamespacesCall)
    /\ UNCHANGED <<config, cluster, envSteps, deps, idx, lookups, runs, process>>

\* the iteration with a second attempt at a lookup that failed
CheckDependencyRetrying ==
    /\ pc = "loop"
    /\ LET scope == getMatchingNamespaces(cluster, config.namespacePattern)
           retry == ~scope.ok /\ Len(lookups) < idx
       IN  /\ \E depResult \in checkSingleDependency(cluster, deps[idx],
                                                    config.namespacePattern) :
                 IF retry
                 THEN result' = result /\ pc' = pc
                 ELSE /\ result' = recordResult(result, depResult, config.namespacePattern)
                      /\ pc' = IF loopEnds(deps, idx, depResult) THEN "done" ELSE "loop"
           /\ lookups' = Append(lookups,
                             [chart |-> deps[idx].name, pattern |-> config.namespacePattern,
                              ok |-> scope.ok, namespaces |-> scope.namespaces,
                              cluster |-> cluster])
           /\ idx' = IF retry THEN idx ELSE idx + 1
    /\ calls' = calls \o GetReleasesCalls(cluster, config.namespacePattern)
    /\ UNCHANGED <<config, cluster, envSteps, deps, runs, process>>

\* one iteration of the loop of Check
CheckDependency ==
    /\ pc = "loop"
    /\ \E depResult \in checkSingleDependency(cluster, deps[idx], config.namespacePattern) :
          /\ result' = recordResult(result, depResult, config.namespacePattern)
          /\ pc' = IF loopEnds(deps, idx, depResult) THEN "done" ELSE "loop"
    /\ LET scope == getMatchingNamespaces(cluster, config.namespacePattern)
       IN  lookups' = Append(lookups,
                         [chart |-> deps[idx].name, pattern |-> config.namespacePattern,
                          ok |-> scope.ok, namespaces |-> scope.namespaces,
                          cluster |-> cluster])
    /\ calls' = calls \o GetReleasesCalls(cluster, config.namespacePattern)
    /\ idx' = idx + 1
    /\ UNCHANGED <<config, cluster, envSteps, deps, runs, process>>

----------------------------------------------------------------------------
(* The environment *)

CreateNamespace(n) ==
    /\ envSteps < MaxEnvSteps
    /\ n \notin cluster.namespaces
    /\ cluster' = [cluster EXCEPT !.namespaces = @ \cup {n}]
    /\ envSteps' = envSteps + 1
    /\ UNCHANGED <<config, pc, deps, idx, result, calls, lookups, runs, process>>

\* deleting a namespace deletes the releases in it
DeleteNamespace(n) ==
    /\ envSteps < MaxEnvSteps
    /\ n \in cluster.namespaces
    /\ cluster' = [cluster EXCEPT
                      !.namespaces = @ \ {n},
                      !.deployed = {i \in @ : ReleasePool[i].namespace # n}]
    /\ envSteps' = envSteps + 1
    /\ UNCHANGED <<config, pc, deps, idx, result, calls, lookups, runs, process>>

Install(i) ==
    /\ envSteps < MaxEnvSteps
    /\ i \notin cluster.deployed
    /\ ReleasePool[i].namespace \in cluster.namespaces
    /\ cluster' = [cluster EXCEPT !.deployed = @ \cup {i}]
    /\ envSteps' = envSteps + 1
    /\ UNCHANGED <<config, pc, deps, idx, result, calls, lookups, runs, process>>

Uninstall(i) ==
    /\ envSteps < MaxEnvSteps
    /\ i \in cluster.deployed
    /\ cluster' = [cluster EXCEPT !.deployed = @ \ {i}]
    /\ envSteps' = envSteps + 1
    /\ UNCHANGED <<config, pc, deps, idx, result, calls, lookups, runs, process>>

\* listing the namespaces starts or stops failing
ApiOutage ==
    /\ envSteps < MaxEnvSteps
    /\ cluster' = [cluster EXCEPT !.apiDown = ~@]
    /\ envSteps' = envSteps + 1
    /\ UNCHANGED <<config, pc, deps, idx, result, calls, lookups, runs, process>>

\* listing the releases of one namespace starts or stops failing
NamespaceOutage(n) ==
    /\ envSteps < MaxEnvSteps
    /\ n \in cluster.namespaces
    /\ cluster' = [cluster EXCEPT
                      !.nsDown = IF n \in @ THEN @ \ {n} ELSE @ \cup {n}]
    /\ envSteps' = envSteps + 1
    /\ UNCHANGED <<config, pc, deps, idx, result, calls, lookups, runs, process>>

Environment ==
    /\ pc # "done"
    /\ \/ \E n \in {NamespaceUniverse[i] : i \in 1..Len(NamespaceUniverse)} :
              CreateNamespace(n) \/ DeleteNamespace(n) \/ NamespaceOutage(n)
       \/ \E i \in 1..Len(ReleasePool) : Install(i) \/ Uninstall(i)
       \/ ApiOutage

Next ==
    \/ CheckParse
    \/ CheckNamespaces
    \/ CheckDependency
    \/ Environment

Spec == Init /\ [][Next]_vars

----------------------------------------------------------------------------
(* Two calls of Check with the same config against an unchanged cluster    *)

MaxRuns == 2

\* Check is called again once it has returned
Rerun ==
    /\ pc = "done"
    /\ Len(runs) + 1 < MaxRuns
    /\ runs' = Append(runs, result)
    /\ pc' = "init"
    /\ deps' = <<>>
    /\ idx' = 1
    /\ result' = NewCheckResult
    /\ calls' = <<>>
    /\ lookups' = <<>>
    /\ UNCHANGED <<config, cluster, envSteps, process>>

NextRerun ==
    \/ CheckParse
    \/ CheckNamespaces
    \/ CheckDependency
    \/ Rerun

SpecRerun == Init /\ [][NextRerun]_vars

----------------------------------------------------------------------------
(* The namespace filter: Check in clusters with any of the namespaces a     *)
(* cluster can have, for each pattern, against an unchanged cluster         *)

FilterPatterns == {"", "prod", "s", "kube", "["}

FilterConfigs ==
    {[chart |-> TRUE, file |-> "ok", dependencies |-> d, namespacePattern |-> p] :
        d \in {<<>>, <<[name |-> "redis", version |-> ">=6.0.0 <7.0.0"]>>},
        p \in FilterPatterns}

FilterClusters ==
    {[namespaces |-> ns, deployed |-> d, apiDown |-> FALSE, nsDown |-> {}] :
        ns \in SUBSET {AllNamespaces[i] : i \in 1..Len(AllNamespaces)},
        d \in SUBSET (1..Len(ReleasePool))}

InitFilter ==
    /\ config \in FilterConfigs
    /\ cluster \in {c \in FilterClusters : ValidCluster(c)}
    /\ envSteps = 0
    /\ pc = "init"
    /\ deps = <<>>
    /\ idx = 1
    /\ result = NewCheckResult
    /\ calls = <<>>
    /\ lookups = <<>>
    /\ runs = <<>>
    /\ process = InCheck

NextFilter ==
    \/ CheckParse
    \/ CheckNamespaces
    \/ CheckDependency

SpecFilter == InitFilter /\ [][NextFilter]_vars

----------------------------------------------------------------------------
(* The declaration validator: Check of every declaration of up to           *)
(* MaxEntries entries, well-formed or not, against one cluster              *)

MaxEntries == 3

ValidatePool ==
    {[name |-> n, version |-> v] :
        n \in {"", " ", "redis", "pg"}, v \in {"", " ", "^1.0.0", "bad"}}

ValidateConfigs ==
    {[chart |-> TRUE, file |-> "ok", dependencies |-> d, namespacePattern |-> ""] :
        d \in SeqsUpTo(ValidatePool, MaxEntries)}

ValidateCluster ==
    [namespaces |-> {"prod"}, deployed |-> {1}, apiDown |-> FALSE, nsDown |-> {}]

InitValidate ==
    /\ config \in ValidateConfigs
    /\ cluster = ValidateCluster
    /\ envSteps = 0
    /\ pc = "init"
    /\ deps = <<>>
    /\ idx = 1
    /\ result = NewCheckResult
    /\ calls = <<>>
    /\ lookups = <<>>
    /\ runs = <<>>
    /\ process = InCheck

NextValidate ==
    \/ CheckParse
    \/ CheckNamespaces
    \/ CheckDependency

SpecValidate == InitValidate /\ [][NextValidate]_vars

----------------------------------------------------------------------------
(* main: the process from the start of runCheck to its exit                 *)

exitSuccess == 0

exitFailure == 1

OutputFormats == {"", "text", "json", "yaml", "xml"}

\* the config of the command line: path is TRUE when the chart path exists,
\* kubeConfig is "ok" when a client can be built from it
MainConfigs ==
    LET charts ==
            {[path |-> FALSE, chart |-> FALSE, file |-> "missing", dependencies |-> <<>>],
             [path |-> TRUE, chart |-> FALSE, file |-> "missing", dependencies |-> <<>>],
             [path |-> TRUE, chart |-> TRUE, file |-> "missing", dependencies |-> <<>>],
             [path |-> TRUE, chart |-> TRUE, file |-> "badyaml", dependencies |-> <<>>]}
            \cup {[path |-> TRUE, chart |-> TRUE, file |-> "ok", dependencies |-> d] :
                     d \in SeqsUpTo({[name |-> "redis", version |-> ">=6.0.0 <7.0.0"],
                                     [name |-> "pg", version |-> "^1.0.0"]}, MaxDeps)}
    IN  {[path |-> c.path, chart |-> c.chart, file |-> c.file,
          dependencies |-> c.dependencies, namespacePattern |-> p,
          kubeConfig |-> k, outputFormat |-> o] :
            c \in charts, p \in {"", "s", "["}, k \in {"ok", "bad"},
            o \in OutputFormats}

\* validateConfig of main: TRUE when it returns nil
validateConfig(cfg) == cfg.path

\* helm.NewClient: TRUE when it returns a client
NewClient(cfg) == cfg.kubeConfig = "ok"

\* Client.HealthCheck: TRUE when it returns nil
HealthCheck(cl) == ~cl.apiDown

\* Checker.ValidateConfig: TRUE when it returns nil
ValidateConfig(cfg) ==
    /\ cfg.namespacePattern # "" => Compiles(cfg.namespacePattern)
    /\ cfg.outputFormat \in {"text", "json", "yaml", ""}

\* outputResults: TRUE when it returns nil; the encoders return the error of
\* a write to standard output, outputText ignores it
outputResults(stdout, outputFormat) ==
    IF outputFormat \in {"json", "yaml"} THEN stdout = "open" ELSE TRUE

\* the process exits with exitSuccess whatever the report says
exitCodeIgnoringReport(report) == exitSuccess

\* the exit code runCheck and main give a report that was output
exitCodeOf(report) == IF ~report.success THEN exitFailure ELSE exitSuccess

\* os.Exit, and the return of main
Exit(code) == [process EXCEPT !.step = "exited", !.exitCode = code]

InitMain ==
    /\ config \in MainConfigs
    /\ cluster \in {c \in Clusters : ValidCluster(c)}
    /\ envSteps = 0
    /\ pc = "idle"
    /\ deps = <<>>
    /\ idx = 1
    /\ result = NewCheckResult
    /\ calls = <<>>
    /\ lookups = <<>>
    /\ runs = <<>>
    /\ process \in {[step |-> "start", stdout |-> o, output |-> "none", exitCode |-> 0] :
                        o \in {"open", "closed"}}

\* runCheck up to the client: validateConfig and helm.NewClient
MainConfigure ==
    /\ process.step = "start"
    /\ process' = IF ~validateConfig(config) \/ ~NewClient(config)
                  THEN Exit(exitFailure)
                  ELSE [process EXCEPT !.step = "client"]
    /\ UNCHANGED <<config, cluster, envSteps, pc, deps, idx, result, calls, lookups, runs>>

\* runCheck: the health check
MainHealthCheck ==
    /\ process.step = "client"
    /\ process' = IF ~HealthCheck(cluster)
                  THEN Exit(exitFailure)
                  ELSE [process EXCEPT !.step = "healthy"]
    /\ UNCHANGED <<config, cluster, envSteps, pc, deps, idx, result, calls, lookups, runs>>

\* runCheck: Checker.ValidateConfig and the call of Checker.Check
MainCallCheck ==
    /\ process.step = "healthy"
    /\ IF ~ValidateConfig(config)
       THEN process' = Exit(exitFailure) /\ pc' = pc
       ELSE process' = [process EXCEPT !.step = "check"] /\ pc' = "init"
    /\ UNCHANGED <<config, cluster, envSteps, deps, idx, result, calls, lookups, runs>>

\* runCheck from the return of Checker.Check: outputResults and the exit
MainOutput ==
    /\ process.step = "check"
    /\ pc = "done"
    /\ process' = IF ~outputResults(process.stdout, config.outputFormat)
                  THEN [Exit(exitFailure) EXCEPT !.output = "failed"]
                  ELSE [Exit(exitCodeOf(result)) EXCEPT !.output = "ok"]
    /\ UNCHANGED <<config, cluster, envSteps, pc, deps, idx, result, calls, lookups, runs>>

NextMain ==
    \/ MainConfigure
    \/ MainHealthCheck
    \/ MainCallCheck
    \/ CheckParse
    \/ CheckNamespaces
    \/ CheckDependency
    \/ MainOutput
    \/ ApiOutage

SpecMain == InitMain /\ [][NextMain]_vars

----------------------------------------------------------------------------
(* Vocabulary of the properties *)

\* Check has returned result
Returned == pc = "done"

Results == result.dependencies

AllSatisfied == \A i \in 1..Len(Results) : Results[i].status = StatusSatisfied

\* the report carries an error that belongs to no dependency result: Check
\* gave up on the chart path, the declaration or the namespace enumeration
Aborted == Len(result.errors) > 0 /\ Len(Results) = 0

\* the declaration as written has one of the problems validation rejects
DeclarationInvalid ==
    /\ config.chart
    /\ \/ config.file = "badyaml"
       \/ /\ config.file = "ok"
          /\ \E i \in 1..Len(config.dependencies) :
                LET d == config.dependencies[i]
                IN  \/ d.name \in {"", " "}
                    \/ d.version \in {"", " "}
                    \/ \E j \in 1..(i - 1) : config.dependencies[j].name = d.name
                    \/ d.version \notin {">=6.0.0 <7.0.0", "^1.0.0"}

\* the chart and its declaration are accepted
DeclarationValid ==
    /\ config.chart
    /\ config.file \in {"missing", "ok"}
    /\ ~DeclarationInvalid

\* the dependencies the accepted declaration declares
Declared == IF config.file = "ok" THEN config.dependencies ELSE <<>>

\* the namespace enumeration at the start of Check failed
EnumerationFailed ==
    \E i \in 1..Len(result.errors) :
        /\ result.errors[i].type = ErrorTypeHelmClientError
        /\ result.errors[i].chart = ""

Statuses ==
    {StatusSatisfied, StatusNotFound, StatusVersionMismatch, StatusMultipleFound,
     StatusError}

----------------------------------------------------------------------------
(* C1 *)

\* C1, as claimed: in every returned report success is true iff every
\* DependencyResult is Satisfied.
C1_SuccessIffAllSatisfied ==
    Returned => (result.success <=> AllSatisfied)

\* C1, amended: in every returned report success is true iff every
\* DependencyResult is Satisfied and Check did not abort with an error of its
\* own (chart path, declaration or namespace enumeration).
C1_SuccessIffAllSatisfiedAndNotAborted ==
    Returned => (result.success <=> (AllSatisfied /\ ~Aborted))

\* a report with a Satisfied and a failed result
C1_Witness ==
    /\ Returned
    /\ Len(Results) = 2
    /\ Results[1].status = StatusSatisfied
    /\ Results[2].status # StatusSatisfied
    /\ ~result.success

----------------------------------------------------------------------------
(* C2 *)

\* C2: at every point of Check, after each loop iteration and at return,
\* summary.total is the number of DependencyResult entries and the five
\* outcome counters add up to summary.total.
C2_SummaryConsistent ==
    LET sm == result.summary
    IN  /\ sm.total = Len(Results)
        /\ sm.satisfied + sm.notFound + sm.mismatched + sm.multiple + sm.errors
               = sm.total

\* between two iterations, with one result of two counted
C2_Witness ==
    /\ pc = "loop"
    /\ idx = 2
    /\ result.summary.total = 1
    /\ result.summary.errors = 1

----------------------------------------------------------------------------
(* C3 *)

----------------------------------------------------------------------------
(* C4 *)

\* the errors of the report whose subject is this dependency
ErrorsFor(name) ==
    {j \in 1..Len(result.errors) : result.errors[j].chart = name}

\* C4: in every report each DependencyResult that is not Satisfied has exactly
\* one error whose subject is the dependency's name, and a Satisfied one none.
C4_OneErrorPerFailedResult ==
    \A i \in 1..Len(Results) :
        Cardinality(ErrorsFor(Results[i].name))
            = IF Results[i].status = StatusSatisfied THEN 0 ELSE 1

C4_Witness ==
    /\ Returned
    /\ Len(Results) = 2
    /\ Results[1].status = StatusError
    /\ Results[2].status = StatusSatisfied
    /\ Len(result.errors) = 1

----------------------------------------------------------------------------
(* C5 *)

\* C5: once validation and namespace enumeration have succeeded, the results
\* are, in declaration order, one per dependency checked so far, each with one
\* of the five outcomes; whatever the outcome, the loop goes on to the next
\* dependency, and the returned report has one result per declared dependency.
C5_OneResultPerDependency ==
    (pc \in {"loop", "done"} /\ ~Aborted) =>
        /\ Len(Results) = idx - 1
        /\ Len(Results) <= Len(deps)
        /\ \A i \in 1..Len(Results) :
              /\ Results[i].name = deps[i].name
              /\ Results[i].requiredVersion = deps[i].version
              /\ Results[i].status \in Statuses
              /\ Cardinality({k \in 1..Len(Results) : Results[k].name = deps[i].name}) = 1
        /\ (pc = "loop") = (Len(Results) < Len(deps))

\* a failed first dependency followed by the result of the second
C5_Witness ==
    /\ Returned
    /\ Len(deps) = 2
    /\ Len(Results) = 2
    /\ Results[1].status \in {StatusError, StatusMultipleFound}
    /\ Results[2].status = StatusSatisfied

----------------------------------------------------------------------------
(* C6 *)

\* C6: when the declaration fails validation, Check never queries the Release
\* Directory and produces no DependencyResult, and the report it returns has
\* success false and exactly one error, of a validation kind.
C6_ValidationFailureAborts ==
    DeclarationInvalid =>
        /\ calls = <<>>
        /\ lookups = <<>>
        /\ Results = <<>>
        /\ pc \in {"init", "done"}
        /\ Returned =>
              /\ ~result.success
              /\ Len(result.errors) = 1
              /\ result.errors[1].type \in {ErrorTypeInvalidDependencyFile,
                                            ErrorTypeInvalidVersionConstraint}

\* a declaration with a duplicate name, rejected
C6_Witness ==
    /\ Returned
    /\ Len(config.dependencies) = 2
    /\ config.dependencies[1].name = "redis"
    /\ config.dependencies[2] = config.dependencies[1]
    /\ result.errors[1].message = <<"duplicate dependency name">>

----------------------------------------------------------------------------
(* C7 *)

\* C7, as claimed: when the validated declaration is empty, Check returns
\* success with all counters zero and never queries the Release Directory.
C7_EmptyDeclarationNeverQueries ==
    (DeclarationValid /\ Len(Declared) = 0) =>
        /\ calls = <<>>
        /\ Returned =>
              /\ result.success
              /\ result.summary = NewCheckResult.summary

----------------------------------------------------------------------------
(* C8 *)

\* C8, as claimed: every release lookup of one Check searches the namespace
\* scope computed at the start of the check, report.matchedNamespaces,
\* whatever happens to the cluster's namespaces in between.
C8_OneScopePerCheck ==
    ~Aborted =>
        \A i \in 1..Len(lookups) :
            lookups[i].ok => lookups[i].namespaces = result.matchedNamespaces

----------------------------------------------------------------------------
(* C9 *)

\* C9, as claimed: a second Check with the same declaration, release set and
\* namespace pattern returns the report the first one returned.
C9_SameInputsSameReport ==
    (Returned /\ Len(runs) > 0) => result = runs[1]

----------------------------------------------------------------------------
(* C10 *)

\* the Release Directory failed during this lookup: the namespaces could not
\* be listed, or the releases of a namespace in scope could not
LookupFailed(l) ==
    \/ l.cluster.apiDown
    \/ \E i \in 1..Len(l.namespaces) : l.namespaces[i] \in l.cluster.nsDown

\* C10, as claimed: a dependency during whose lookup the Release Directory
\* failed has outcome Error, with the failure as its message.
C10_LookupFailureIsError ==
    \A i \in 1..Len(Results) :
        LookupFailed(lookups[i]) =>
            /\ Results[i].status = StatusError
            /\ Contains(Results[i].error, <<"failed to find releases">>)

----------------------------------------------------------------------------
(* Vocabulary of the resolution properties: what a lookup had in front of  *)
(* it, read from the cluster as it was at the lookup                       *)

Range(seq) == {seq[i] : i \in 1..Len(seq)}

\* the releases the lookup l returned: the deployed releases of the chart in
\* the namespaces of its scope whose releases could be listed
Matched(l) ==
    {ReleasePool[k] : k \in {k \in l.cluster.deployed :
        /\ ReleasePool[k].chart.name = l.chart
        /\ ReleasePool[k].namespace \in Range(l.namespaces)
        /\ ReleasePool[k].namespace \notin l.cluster.nsDown}}

MatchedIn(l, namespace) == {r \in Matched(l) : r.namespace = namespace}

MatchedNamespaces(l) == {r.namespace : r \in Matched(l)}

\* the namespaces that hold more than one matched release
Duplicated(l) == {n \in MatchedNamespaces(l) : Cardinality(MatchedIn(l, n)) > 1}

\* the error the report records for the dependency of this name
ErrorOf(name) == result.errors[CHOOSE j \in ErrorsFor(name) : TRUE]

\* a sequence that lists the elements of the set S once each
Lists(seq, S) == Range(seq) = S /\ Len(seq) = Cardinality(S)

----------------------------------------------------------------------------
(* C11 *)

\* C11: when the matched releases of a dependency include several in one
\* namespace and also span several namespaces, the outcome is MultipleFound by
\* the same-namespace rule: matchedReleases are the releases of one duplicated
\* namespace and the error kind is DuplicateInNamespace; and whenever more
\* than one release matched, the outcome is no version verdict.
C11_SameNamespaceRuleFirst ==
    \A i \in 1..Len(Results) :
        LET l == lookups[i]
            r == Results[i]
        IN  /\ (l.ok /\ Duplicated(l) # {} /\ Cardinality(MatchedNamespaces(l)) > 1) =>
                  /\ r.status = StatusMultipleFound
                  /\ \E n \in Duplicated(l) : Lists(r.foundReleases, MatchedIn(l, n))
                  /\ ErrorsFor(r.name) # {}
                  /\ ErrorOf(r.name).type = ErrorTypeDuplicateInNamespace
            /\ (l.ok /\ Cardinality(Matched(l)) > 1) =>
                  r.status \notin {StatusSatisfied, StatusVersionMismatch}

\* two releases in prod and one in staging
C11_Witness ==
    /\ Len(Results) >= 1
    /\ lookups[1].ok
    /\ Duplicated(lookups[1]) = {"prod"}
    /\ MatchedNamespaces(lookups[1]) = {"prod", "staging"}
    /\ Results[1].status = StatusMultipleFound
    /\ Len(Results[1].foundReleases) = 2

----------------------------------------------------------------------------
(* C12 *)

\* C12: a dependency whose lookup succeeded and returned no release of its
\* chart in the namespace scope has outcome NotFound, with no matchedReleases
\* and an error of kind DependencyNotFound, and NotFound is the outcome in no
\* other case.
C12_NotFoundIffNothingMatched ==
    \A i \in 1..Len(Results) :
        LET l == lookups[i]
            r == Results[i]
        IN  /\ (r.status = StatusNotFound) <=> (l.ok /\ Matched(l) = {})
            /\ r.status = StatusNotFound =>
                  /\ r.foundReleases = <<>>
                  /\ ErrorsFor(r.name) # {}
                  /\ ErrorOf(r.name).type = ErrorTypeDependencyNotFound

\* pg is not found in a scope that holds a release of another chart
C12_Witness ==
    /\ Len(Results) >= 1
    /\ Results[1].name = "pg"
    /\ Results[1].status = StatusNotFound
    /\ lookups[1].ok
    /\ \E k \in lookups[1].cluster.deployed :
          ReleasePool[k].namespace \in Range(lookups[1].namespaces)

----------------------------------------------------------------------------
(* C13 *)

\* semantic versioning on the strings of the model: the versions that parse,
\* the constraints that parse, and the pairs in which the version is in range
SemanticVersions == {"6.2.1", "7.0.0", "1.4.0"}

RangeExpressions == {">=6.0.0 <7.0.0", "^1.0.0"}

InRange ==
    {<<"6.2.1", ">=6.0.0 <7.0.0">>, <<"1.4.0", "^1.0.0">>}

\* C13: when exactly one release matches a dependency, the outcome is
\* Satisfied if its chart version satisfies the constraint, VersionMismatch if
\* the version parses and does not satisfy it, and Error if the version or the
\* constraint cannot be evaluated; matchedReleases is that release.
C13_SingleMatchVerdict ==
    \A i \in 1..Len(Results) :
        LET l == lookups[i]
            r == Results[i]
        IN  (l.ok /\ Cardinality(Matched(l)) = 1) =>
                LET rel == CHOOSE m \in Matched(l) : TRUE
                    evaluable == /\ rel.chart.version \in SemanticVersions
                                 /\ r.requiredVersion \in RangeExpressions
                IN  /\ r.foundReleases = <<rel>>
                    /\ r.status =
                          IF ~evaluable THEN StatusError
                          ELSE IF <<rel.chart.version, r.requiredVersion>> \in InRange
                          THEN StatusSatisfied
                          ELSE StatusVersionMismatch

\* the only matching release has a chart version that is no semantic version
C13_Witness ==
    /\ Len(Results) >= 1
    /\ lookups[1].ok
    /\ Cardinality(Matched(lookups[1])) = 1
    /\ Results[1].foundReleases[1].chart.version = "junk"
    /\ Results[1].status = StatusError

----------------------------------------------------------------------------
(* C14 *)

\* the namespaces a "found in multiple namespaces: a, b" message lists
NamedInMessage(message) == {message[k] : k \in 6..Len(message)} \ {","}

\* C14: when no namespace holds more than one matched release and the matched
\* releases lie in more than one namespace, the outcome is MultipleFound,
\* matchedReleases are all the matched releases, and the message and the
\* namespace list of the error name each namespace involved.
C14_CrossNamespaceRule ==
    \A i \in 1..Len(Results) :
        LET l == lookups[i]
            r == Results[i]
        IN  (l.ok /\ Duplicated(l) = {} /\ Cardinality(MatchedNamespaces(l)) > 1) =>
                /\ r.status = StatusMultipleFound
                /\ Lists(r.foundReleases, Matched(l))
                /\ Contains(r.error, <<"found", "in", "multiple", "namespaces", ":">>)
                /\ NamedInMessage(r.error) = MatchedNamespaces(l)
                /\ ErrorsFor(r.name) # {}
                /\ Range(ErrorOf(r.name).details.foundNamespaces) = MatchedNamespaces(l)

\* one release in prod and one in staging
C14_Witness ==
    /\ Len(Results) >= 1
    /\ lookups[1].ok
    /\ Duplicated(lookups[1]) = {}
    /\ MatchedNamespaces(lookups[1]) = {"prod", "staging"}
    /\ Results[1].status = StatusMultipleFound
    /\ ErrorOf(Results[1].name).details.foundNamespaces = <<"prod", "staging">>

----------------------------------------------------------------------------
(* C15 *)

\* C15: when some namespace holds more than one matched release, the outcome
\* is MultipleFound, matchedReleases are the matched releases of one namespace
\* that holds more than one, and the message and the namespace of the error
\* name that namespace.
C15_SameNamespaceRule ==
    \A i \in 1..Len(Results) :
        LET l == lookups[i]
            r == Results[i]
        IN  (l.ok /\ Duplicated(l) # {}) =>
                /\ r.status = StatusMultipleFound
                /\ \E n \in Duplicated(l) :
                      /\ Lists(r.foundReleases, MatchedIn(l, n))
                      /\ Len(r.foundReleases) >= 2
                      /\ r.error = <<"multiple", "instances", "found", "in",
                                     "namespace", n>>
                      /\ ErrorsFor(r.name) # {}
                      /\ ErrorOf(r.name).details.namespace = n

\* one release in prod and two in staging
C15_Witness ==
    /\ Len(Results) >= 1
    /\ lookups[1].ok
    /\ Duplicated(lookups[1]) = {"staging"}
    /\ MatchedNamespaces(lookups[1]) = {"prod", "staging"}
    /\ ErrorOf(Results[1].name).details.namespace = "staging"
    /\ ErrorOf(Results[1].name).details.foundReleases = <<"cache-c", "cache-d">>

----------------------------------------------------------------------------
(* C16 *)

\* the namespace filter has run: Check has called GetMatchingNamespaces
Filtered == calls # <<>>

\* C16: with an empty pattern the namespace filter returns the namespaces of
\* the cluster other than kube-system, kube-public and kube-node-lease, each
\* once; default is among them when it exists.
C16_EmptyPatternExcludesSystem ==
    (config.namespacePattern = "" /\ Filtered) =>
        /\ ~EnumerationFailed
        /\ Lists(result.matchedNamespaces,
                 cluster.namespaces \ {"kube-system", "kube-public", "kube-node-lease"})
        /\ \A i \in 1..Len(lookups) :
              lookups[i].ok /\ lookups[i].namespaces = result.matchedNamespaces

\* a cluster with default and with system namespaces, filtered
C16_Witness ==
    /\ config.namespacePattern = ""
    /\ Filtered
    /\ {"default", "kube-system", "kube-public"} \subseteq cluster.namespaces
    /\ "default" \in Range(result.matchedNamespaces)
    /\ "kube-system" \notin Range(result.matchedNamespaces)

----------------------------------------------------------------------------
(* C17 *)

\* the names in which the expression occurs somewhere
Occurs(pattern) ==
    CASE pattern = "prod" -> {"prod"}
      [] pattern = "s" -> {"kube-system", "kube-node-lease", "staging"}
      [] pattern = "kube" -> {"kube-system", "kube-node-lease", "kube-public"}
      [] OTHER -> {}

\* C17: with a non-empty pattern that compiles the namespace filter returns
\* the namespaces of the cluster in whose name the pattern matches somewhere,
\* system namespaces included; with a pattern that does not compile Check
\* produces no DependencyResult and returns a single error that belongs to no
\* dependency.
C17_PatternSearchesNames ==
    /\ (config.namespacePattern \in {"prod", "s", "kube"} /\ Filtered) =>
          /\ ~EnumerationFailed
          /\ Lists(result.matchedNamespaces,
                   cluster.namespaces \cap Occurs(config.namespacePattern))
          /\ \A i \in 1..Len(lookups) :
                lookups[i].ok /\ lookups[i].namespaces = result.matchedNamespaces
    /\ config.namespacePattern = "[" =>
          /\ Results = <<>>
          /\ lookups = <<>>
          /\ pc \in {"init", "parsed", "done"}
          /\ Returned =>
                /\ ~result.success
                /\ Len(result.errors) = 1
                /\ result.errors[1].type = ErrorTypeHelmClientError
                /\ result.errors[1].chart = ""

\* the pattern s finds staging and two system namespaces, not prod
C17_Witness ==
    /\ config.namespacePattern = "s"
    /\ Filtered
    /\ cluster.namespaces = Range(AllNamespaces)
    /\ result.matchedNamespaces = <<"kube-node-lease", "kube-system", "staging">>

----------------------------------------------------------------------------
(* C18 *)

Blank(s) == s \in {"", " "}

Entry(i) == config.dependencies[i]

EmptyName(i) == Blank(Entry(i).name)

EmptyConstraint(i) == Blank(Entry(i).version)

AlreadySeen(i) == \E j \in 1..(i - 1) : Entry(j).name = Entry(i).name

Unparsable(i) == Entry(i).version \notin RangeExpressions

Problems ==
    {i \in 1..Len(config.dependencies) :
        EmptyName(i) \/ EmptyConstraint(i) \/ AlreadySeen(i) \/ Unparsable(i)}

FirstProblem == CHOOSE i \in Problems : \A j \in Problems : i <= j

\* the first of the four problems the entry has, as kind and message
ProblemOf(i) ==
    IF EmptyName(i)
    THEN <<ErrorTypeInvalidDependencyFile, <<"dependency name cannot be empty">> >>
    ELSE IF EmptyConstraint(i)
    THEN <<ErrorTypeInvalidDependencyFile, <<"dependency version cannot be empty">> >>
    ELSE IF AlreadySeen(i)
    THEN <<ErrorTypeInvalidDependencyFile, <<"duplicate dependency name">> >>
    ELSE <<ErrorTypeInvalidVersionConstraint,
           <<"invalid version constraint", Entry(i).version>> >>

ValidationErrors ==
    {i \in 1..Len(result.errors) :
        result.errors[i].type \in
            {ErrorTypeInvalidDependencyFile, ErrorTypeInvalidVersionConstraint}}

\* C18: validation reports the first problem of the first entry that has one,
\* the problems of an entry taken in the order empty name, empty constraint,
\* name already seen, unparsable constraint, and reports nothing else; its
\* kind is InvalidVersionConstraint for an unparsable constraint and
\* InvalidDependencyFile for the other three; validation succeeds only when
\* no entry has a problem.
C18_FirstProblemInScanOrder ==
    pc # "init" =>
        IF Problems = {}
        THEN ValidationErrors = {} /\ deps = config.dependencies
        ELSE /\ Returned
             /\ Results = <<>>
             /\ deps = <<>>
             /\ Len(result.errors) = 1
             /\ result.errors[1].type = ProblemOf(FirstProblem)[1]
             /\ result.errors[1].message = ProblemOf(FirstProblem)[2]
             /\ result.errors[1].details.line = FirstProblem + 1

\* a second entry that repeats the first one's name and has no constraint,
\* before an entry with no name: the missing constraint is reported
C18_Witness ==
    /\ Returned
    /\ Len(config.dependencies) = 3
    /\ FirstProblem = 2
    /\ EmptyConstraint(2) /\ AlreadySeen(2)
    /\ EmptyName(3)
    /\ result.errors[1].message = <<"dependency version cannot be empty">>

----------------------------------------------------------------------------
(* C19 *)

PairwiseDistinct(names) ==
    \A i, j \in 1..Len(names) : i # j => names[i] # names[j]

\* C19: the dependencies of an accepted declaration have pairwise distinct
\* names, none empty, and so have the results and the lookups of the check;
\* when the first problem of a declaration is a repeated name, validation
\* fails with that name as subject at the position of the later occurrence.
C19_NamesUnique ==
    /\ (pc # "init" /\ ValidationErrors = {}) =>
          /\ PairwiseDistinct([i \in 1..Len(config.dependencies) |-> Entry(i).name])
          /\ \A i \in 1..Len(config.dependencies) : ~EmptyName(i)
          /\ PairwiseDistinct([i \in 1..Len(deps) |-> deps[i].name])
          /\ PairwiseDistinct([i \in 1..Len(Results) |-> Results[i].name])
          /\ PairwiseDistinct([i \in 1..Len(lookups) |-> lookups[i].chart])
    /\ (/\ pc # "init"
        /\ Problems # {}
        /\ AlreadySeen(FirstProblem)
        /\ ~EmptyName(FirstProblem)
        /\ ~EmptyConstraint(FirstProblem)) =>
          /\ Returned
          /\ Len(result.errors) = 1
          /\ result.errors[1].type = ErrorTypeInvalidDependencyFile
          /\ result.errors[1].message = <<"duplicate dependency name">>
          /\ result.errors[1].chart = Entry(FirstProblem).name
          /\ result.errors[1].details.line = FirstProblem + 1
          /\ \A j \in 1..(FirstProblem - 1) :
                Entry(j).name = Entry(FirstProblem).name =>
                    result.errors[1].details.line # j + 1
          /\ lookups = <<>>

\* redis declared first and third: the third entry is reported
C19_Witness ==
    /\ Returned
    /\ Len(config.dependencies) = 3
    /\ Entry(1).name = "redis" /\ Entry(2).name = "pg" /\ Entry(3).name = "redis"
    /\ FirstProblem = 3
    /\ result.errors[1].chart = "redis"
    /\ result.errors[1].details.line = 4

----------------------------------------------------------------------------
(* C20 *)

\* the kind the taxonomy gives to the rule that classified the dependency of
\* a lookup with the given outcome
KindOf(l, status) ==
    CASE status = StatusNotFound -> ErrorTypeDependencyNotFound
      [] status = StatusVersionMismatch -> ErrorTypeVersionMismatch
      [] status = StatusMultipleFound /\ Duplicated(l) # {} ->
            ErrorTypeDuplicateInNamespace
      [] status = StatusMultipleFound /\ Duplicated(l) = {} ->
            ErrorTypeMultipleDeployments
      [] OTHER -> ErrorTypeHelmClientError

\* C20: the error recorded for a result that is NotFound, VersionMismatch or
\* MultipleFound has the kind of the rule that classified it:
\* DependencyNotFound, VersionMismatch, MultipleDeployments when the matched
\* releases lie one per namespace in several namespaces, DuplicateInNamespace
\* when a namespace holds more than one of them.
C20_KindFollowsRule ==
    \A i \in 1..Len(Results) :
        LET l == lookups[i]
            r == Results[i]
        IN  r.status \in {StatusNotFound, StatusVersionMismatch, StatusMultipleFound} =>
                /\ l.ok
                /\ Cardinality(ErrorsFor(r.name)) = 1
                /\ ErrorOf(r.name).type = KindOf(l, r.status)

\* a dependency duplicated in staging and also deployed in prod, then one
\* that is deployed nowhere
C20_Witness ==
    /\ Len(Results) = 2
    /\ Results[1].status = StatusMultipleFound
    /\ Duplicated(lookups[1]) # {}
    /\ Cardinality(MatchedNamespaces(lookups[1])) > 1
    /\ ErrorOf(Results[1].name).type = ErrorTypeDuplicateInNamespace
    /\ Results[2].status = StatusNotFound
    /\ ErrorOf(Results[2].name).type = ErrorTypeDependencyNotFound

----------------------------------------------------------------------------
(* C21 *)

\* C21, as claimed: an error of kind helm_client_error is in the report only
\* when the namespace enumeration of the check failed, for the error that
\* belongs to no dependency, or when the Release Directory failed during the
\* lookup of the dependency the error belongs to.
C21_DirectoryErrorOnlyOnFailure ==
    /\ \A j \in 1..Len(result.errors) :
          (result.errors[j].type = ErrorTypeHelmClientError
              /\ result.errors[j].chart = "") =>
                 Contains(result.errors[j].message,
                          <<"failed to get matching namespaces">>)
    /\ \A i \in 1..Len(Results) :
          (\E j \in ErrorsFor(Results[i].name) :
              result.errors[j].type = ErrorTypeHelmClientError) =>
                 LookupFailed(lookups[i])

----------------------------------------------------------------------------
(* C22 *)

Exited == process.step = "exited"

\* Checker.Check was called and has returned its report
ReportExists == pc = "done"

\* C22: the process exits with code 0 exactly when Check returned a report
\* with success = true and outputResults rendered it; with a report whose
\* success is false, or with no report at all, the exit code is not 0.
C22_ExitCodeFollowsReport ==
    Exited =>
        /\ process.exitCode \in {exitSuccess, exitFailure}
        /\ process.exitCode = 0 <=>
              (ReportExists /\ result.success /\ process.output = "ok")
        /\ (ReportExists /\ ~result.success) => process.exitCode # 0
        /\ ~ReportExists => process.exitCode # 0

\* a report with a failed dependency was written as JSON and the process
\* exited with 1
C22_Witness ==
    /\ Exited
    /\ ReportExists
    /\ config.outputFormat = "json"
    /\ process.output = "ok"
    /\ Len(Results) = 2
    /\ Results[1].status = StatusSatisfied
    /\ ~result.success
    /\ process.exitCode = 1

----------------------------------------------------------------------------
(* C23 *)

\* the lookups so far are those of the first dependencies of the declaration,
\* one each and in declaration order, with the pattern of the config
LookupsFollowDeclaration ==
    /\ Len(lookups) <= Len(Declared)
    /\ Len(lookups) = Len(Results)
    /\ pc = "loop" => Len(lookups) = idx - 1
    /\ \A i \in 1..Len(lookups) :
          /\ lookups[i].chart = Declared[i].name
          /\ lookups[i].pattern = config.namespacePattern

----------------------------------------------------------------------------
(* C24 *)

\* C24: the number of matchedReleases of a DependencyResult follows from its
\* outcome: one for Satisfied and VersionMismatch, none for NotFound, two or
\* more for MultipleFound, none for an Error of the lookup and one for an
\* Error of the version evaluation; the errors built from a result's first
\* release name that release.
C24_MatchedReleasesByOutcome ==
    \A i \in 1..Len(Results) :
        LET r == Results[i]
            n == Len(r.foundReleases)
        IN  /\ r.status \in {StatusSatisfied, StatusVersionMismatch} => n = 1
            /\ r.status = StatusNotFound => n = 0
            /\ r.status = StatusMultipleFound => n >= 2
            /\ r.status = StatusError => n = IF lookups[i].ok THEN 1 ELSE 0
            /\ r.status = StatusVersionMismatch =>
                  ErrorOf(r.name).details.release = r.foundReleases[1].name
            /\ (r.status = StatusMultipleFound
                   /\ ErrorOf(r.name).type = ErrorTypeDuplicateInNamespace) =>
                  ErrorOf(r.name).details.namespace = r.foundReleases[1].namespace

\* a release whose version cannot be evaluated, then a satisfied dependency
C24_Witness ==
    /\ Len(Results) = 2
    /\ Results[1].status = StatusError
    /\ lookups[1].ok
    /\ Len(Results[1].foundReleases) = 1
    /\ Results[2].status = StatusSatisfied
    /\ Len(Results[2].foundReleases) = 1

----------------------------------------------------------------------------
(* C25 *)

\* the result the error with this subject was recorded for
ResultOf(name) == Results[CHOOSE i \in 1..Len(Results) : Results[i].name = name]

\* C25: the namespace list of an error of kind multiple_deployments has at
\* least two entries, no namespace twice, and the namespaces that the message
\* of the dependency's result names.
C25_MultipleDeploymentsNamespaces ==
    \A j \in 1..Len(result.errors) :
        LET e == result.errors[j]
            namespaces == e.details.foundNamespaces
        IN  e.type = ErrorTypeMultipleDeployments =>
                /\ Len(namespaces) >= 2
                /\ PairwiseDistinct(namespaces)
                /\ \E i \in 1..Len(Results) : Results[i].name = e.chart
                /\ ResultOf(e.chart).status = StatusMultipleFound
                /\ Range(namespaces) = NamedInMessage(ResultOf(e.chart).error)

\* the second dependency is deployed once in prod and once in staging
C25_Witness ==
    /\ Len(result.errors) >= 1
    /\ Len(Results) = 2
    /\ ErrorsFor(Results[2].name) # {}
    /\ ErrorOf(Results[2].name).type = ErrorTypeMultipleDeployments
    /\ Range(ErrorOf(Results[2].name).details.foundNamespaces) = {"prod", "staging"}
    /\ NamedInMessage(Results[2].error) = {"prod", "staging"}

====
